---- MODULE Spec2Model ----
(***************************************************************************)
(* A model of the video classification data module of lightning-flash      *)
(* (flash/video/classification/data.py), of the availability flags of      *)
(* flash/utils/imports.py and of the tabular classification finetuning     *)
(* example.                                                                *)
(*                                                                         *)
(* Spec            VideoClassificationData.from_paths, one step per        *)
(*                 statement, in a module namespace that binds             *)
(*                 _PYTORCHVIDEO_AVAILABLE to a boolean.                    *)
(* SpecPreprocess  VideoClassificationPreprocess: load_data and the five   *)
(*                 transform hooks, driven split by split.                 *)
(* SpecImport      the import of flash.utils.imports and of the video data *)
(*                 module, and the example script, statement by statement. *)
(***************************************************************************)
EXTENDS Integers, Sequences, FiniteSets, TLC

VARIABLES
    _PYTORCHVIDEO_AVAILABLE, \* data.py:31,39,181  the module-global availability flag
    args,            \* the arguments of the from_paths call
    pc,              \* the statement from_paths is about to execute
    clip_sampler_kwargs, \* from_paths' local, rebound at data.py:185
    clip_sampler,    \* from_paths' local, rebound at data.py:192
    preprocess,      \* from_paths' local, bound at data.py:194
    datamodule,      \* what from_paths returned
    raised,          \* the exception from_paths raised
    calls,           \* the calls from_paths made, in order
    videos,          \* the labels of the videos found in a folder, in listing order
    running_stage,   \* the split the preprocess is active for
    datasets,        \* per split: the auto dataset and what load_data returned
    sample,          \* the sample in the pipeline
    processed,       \* per split: the samples that left the pipeline
    installed,       \* the packages importable in the environment
    flags,           \* the namespace of flash.utils.imports
    video_pc,        \* the importer of flash.video.classification.data
    video_error,     \* the exception the importer got
    script_pc,       \* the example script's next statement
    script_called,   \* the example's calls that have started, in order
    script_log,      \* the example's calls that have returned, in order
    script_error     \* the exception that ended the example

paths_vars == <<_PYTORCHVIDEO_AVAILABLE, args, pc, clip_sampler_kwargs, clip_sampler,
                preprocess, datamodule, raised, calls>>
pipeline_vars == <<videos, running_stage, datasets, sample, processed>>
import_vars == <<installed, flags, video_pc, video_error>>
script_vars == <<script_pc, script_called, script_log, script_error>>
vars == <<paths_vars, pipeline_vars, import_vars, script_vars>>

----------------------------------------------------------------------------
(* Python values *)

PyNone == [t |-> "NoneType"]
PyStr(s) == [t |-> "str", v |-> s]
PyInt(n) == [t |-> "int", v |-> n]
PyDict(keys) == [t |-> "dict", keys |-> keys]

\* bool(v): None, the empty string, zero and the empty dict are falsy
Truthy(v) ==
    CASE v.t = "NoneType" -> FALSE
      [] v.t = "str" -> v.v /= ""
      [] v.t = "int" -> v.v /= 0
      [] v.t = "dict" -> v.keys /= {}
      [] OTHER -> TRUE

\* a or b
PyOr(a, b) == IF Truthy(a) THEN a ELSE b

Exception(type, msg) == [t |-> "exception", type |-> type, msg |-> msg]

Splits == {"train", "val", "test", "predict"}

----------------------------------------------------------------------------
(* The arguments of from_paths (data.py:122-142) *)

\* data.py:129, 138: the defaults of clip_duration and batch_size
DefaultClipDuration == 2
DefaultBatchSize == 4

\* A dictionary of transforms given for one split, known by its name
TransformSet(name) == [t |-> "transforms", name |-> name]

\* A class object
Class(name) == [t |-> "type", name |-> name]

\* data.py:97
preprocess_cls == Class("VideoClassificationPreprocess")

FromPathsArgs ==
    [train_folder : {PyNone, PyStr("train/")},
     val_folder : {PyNone, PyStr("val/")},
     test_folder : {PyNone, PyStr("test/")},
     predict_folder : {PyNone, PyStr("predict/")},
     clip_sampler : {PyNone, PyStr(""), PyStr("random")},
     clip_duration : {PyInt(DefaultClipDuration)},
     clip_sampler_kwargs : {PyNone, PyDict({"stride"})},
     video_sampler : {Class("RandomSampler")},
     decode_audio : {TRUE},
     decoder : {PyStr("pyav")},
     train_transform : {PyNone, TransformSet("train_transform")},
     val_transform : {PyNone, TransformSet("val_transform")},
     test_transform : {PyNone, TransformSet("test_transform")},
     predict_transform : {PyNone, TransformSet("predict_transform")},
     batch_size : {PyInt(1), PyInt(DefaultBatchSize)},
     num_workers : {PyNone, PyInt(2)},
     preprocess_cls : {PyNone, Class("CustomPreprocess")},
     kwargs : {PyDict({})}]

----------------------------------------------------------------------------
(* What from_paths calls *)

\* pytorchvideo.data.clip_sampling.make_clip_sampler, called at data.py:192
make_clip_sampler(sampling_type, clip_duration, kwargs) ==
    [t |-> "ClipSampler", sampling_type |-> sampling_type,
     clip_duration |-> clip_duration, kwargs |-> kwargs]

\* VideoClassificationPreprocess.__init__, data.py:48-64
VideoClassificationPreprocess(cls, cs, vs, da, dec, train_tf, val_tf, test_tf, predict_tf) ==
    [t |-> cls.name,
     transforms |-> [train |-> train_tf, val |-> val_tf,
                     test |-> test_tf, predict |-> predict_tf],
     clip_sampler |-> cs,
     video_sampler |-> vs,
     decode_audio |-> da,
     decoder |-> dec]

\* VideoClassificationData.instantiate_preprocess, data.py:99-119
instantiate_preprocess(cs, vs, da, dec, train_tf, val_tf, test_tf, predict_tf, given_cls) ==
    LET cls == PyOr(given_cls, preprocess_cls)
    IN  VideoClassificationPreprocess(cls, cs, vs, da, dec, train_tf, val_tf, test_tf, predict_tf)

\* DataModule.from_load_data_inputs: the data module that owns the preprocess, the
\* load-data input of each split and the dataloader settings
from_load_data_inputs(kw) ==
    [t |-> "VideoClassificationData",
     load_data_input |-> [train |-> kw.train_load_data_input,
                          val |-> kw.val_load_data_input,
                          test |-> kw.test_load_data_input,
                          predict |-> kw.predict_load_data_input],
     batch_size |-> kw.batch_size,
     num_workers |-> kw.num_workers,
     preprocess |-> kw.preprocess,
     use_iterable_auto_dataset |-> kw.use_iterable_auto_dataset,
     kwargs |-> kw.kwargs]

\* A variant of LoadDataInputs with the train and val folders exchanged
LoadDataInputsSwapped(a, p) ==
    [train_load_data_input |-> a.val_folder,
     val_load_data_input |-> a.train_folder,
     test_load_data_input |-> a.test_folder,
     predict_load_data_input |-> a.predict_folder,
     batch_size |-> a.batch_size,
     num_workers |-> a.num_workers,
     preprocess |-> p,
     use_iterable_auto_dataset |-> TRUE,
     kwargs |-> a.kwargs]

\* data.py:206-216: the keyword arguments from_paths gives from_load_data_inputs
LoadDataInputs(a, p) ==
    [train_load_data_input |-> a.train_folder,
     val_load_data_input |-> a.val_folder,
     test_load_data_input |-> a.test_folder,
     predict_load_data_input |-> a.predict_folder,
     batch_size |-> a.batch_size,
     num_workers |-> a.num_workers,
     preprocess |-> p,
     use_iterable_auto_dataset |-> TRUE,
     kwargs |-> a.kwargs]

Call(fn, arg) == [fn |-> fn, arg |-> arg]

\* data.py:182, 189: the messages (the source's backquotes are left out)
PipInstallMessage == "Please, run pip install pytorchvideo."
ClipSamplerMessage ==
    "clip_sampler should be provided as a string or pytorchvideo.data.clip_sampling.ClipSampler"

----------------------------------------------------------------------------
(* VideoClassificationData.from_paths, data.py:181-216, statement by statement *)

\* data.py:181-182
CheckPytorchvideo ==
    /\ pc = "l181"
    /\ IF ~_PYTORCHVIDEO_AVAILABLE
       THEN /\ raised' = Exception("ModuleNotFoundError", PipInstallMessage)
            /\ pc' = "raised"
       ELSE /\ pc' = "l184"
            /\ UNCHANGED raised
    /\ UNCHANGED <<_PYTORCHVIDEO_AVAILABLE, args, clip_sampler_kwargs, clip_sampler,
                   preprocess, datamodule, calls>>
    /\ UNCHANGED <<pipeline_vars, import_vars, script_vars>>

\* data.py:184-185
DefaultClipSamplerKwargs ==
    /\ pc = "l184"
    /\ clip_sampler_kwargs' = IF ~Truthy(clip_sampler_kwargs)
                              THEN PyDict({})
                              ELSE clip_sampler_kwargs
    /\ pc' = "l187"
    /\ UNCHANGED <<_PYTORCHVIDEO_AVAILABLE, args, clip_sampler, preprocess,
                   datamodule, raised, calls>>
    /\ UNCHANGED <<pipeline_vars, import_vars, script_vars>>

\* A variant of ClipSamplerGiven that tests for None only
ClipSamplerNotNone(cs) == cs /= PyNone

\* data.py:187: not clip_sampler is false
ClipSamplerGiven(cs) == Truthy(cs)

\* data.py:187-190
CheckClipSampler ==
    /\ pc = "l187"
    /\ IF ~ClipSamplerGiven(clip_sampler)
       THEN /\ raised' = Exception("MisconfigurationException", ClipSamplerMessage)
            /\ pc' = "raised"
       ELSE /\ pc' = "l192"
            /\ UNCHANGED raised
    /\ UNCHANGED <<_PYTORCHVIDEO_AVAILABLE, args, clip_sampler_kwargs, clip_sampler,
                   preprocess, datamodule, calls>>
    /\ UNCHANGED <<pipeline_vars, import_vars, script_vars>>

\* data.py:192
MakeClipSampler ==
    /\ pc = "l192"
    /\ calls' = Append(calls, Call("make_clip_sampler",
                    <<clip_sampler, args.clip_duration, clip_sampler_kwargs>>))
    /\ clip_sampler' = make_clip_sampler(clip_sampler, args.clip_duration,
                                         clip_sampler_kwargs)
    /\ pc' = "l194"
    /\ UNCHANGED <<_PYTORCHVIDEO_AVAILABLE, args, clip_sampler_kwargs, preprocess,
                   datamodule, raised>>
    /\ UNCHANGED <<pipeline_vars, import_vars, script_vars>>

\* data.py:194-204
InstantiatePreprocess ==
    /\ pc = "l194"
    /\ preprocess' = instantiate_preprocess(clip_sampler, args.video_sampler,
                         args.decode_audio, args.decoder, args.train_transform,
                         args.val_transform, args.test_transform,
                         args.predict_transform, args.preprocess_cls)
    /\ calls' = Append(calls, Call("instantiate_preprocess", preprocess'))
    /\ pc' = "l206"
    /\ UNCHANGED <<_PYTORCHVIDEO_AVAILABLE, args, clip_sampler_kwargs, clip_sampler,
                   datamodule, raised>>
    /\ UNCHANGED <<pipeline_vars, import_vars, script_vars>>

\* data.py:206-216
FromLoadDataInputs ==
    /\ pc = "l206"
    /\ calls' = Append(calls, Call("from_load_data_inputs",
                                   LoadDataInputs(args, preprocess)))
    /\ datamodule' = from_load_data_inputs(LoadDataInputs(args, preprocess))
    /\ pc' = "returned"
    /\ UNCHANGED <<_PYTORCHVIDEO_AVAILABLE, args, clip_sampler_kwargs, clip_sampler,
                   preprocess, raised>>
    /\ UNCHANGED <<pipeline_vars, import_vars, script_vars>>

----------------------------------------------------------------------------
(* VideoClassificationPreprocess, data.py:46-91 *)

\* The videos a folder holds at most, and the labels they carry
MaxVideos == 2
Labels == {0, 1}

\* The samples drawn in one run at most
MaxSamples == 2

Listings == UNION {[1..n -> Labels] : n \in 0..MaxVideos}

NoStage == "none"

\* Preprocess.training: the running stage is the training stage
training(stage) == stage = "train"

\* Preprocess.current_transform: the transforms given for the active split
current_transform(self, stage) == self.transforms[stage]

\* Calling a transform on a sample: the sample remembers what was applied to it
ApplyTransform(tf, value) == Append(value, tf)

\* pytorchvideo.data.encoded_video_dataset.labeled_encoded_video_dataset, called at
\* data.py:67-73: the dataset of the labelled videos found under data
labeled_encoded_video_dataset(data, cs, vs, da, dec, listing) ==
    [t |-> "EncodedVideoDataset",
     data_path |-> data,
     clip_sampler |-> cs,
     video_sampler |-> vs,
     decode_audio |-> da,
     decoder |-> dec,
     _labeled_videos |-> listing]

\* len(np.unique(labels)), data.py:75
NumUnique(labels) == Cardinality({labels[i] : i \in DOMAIN labels})

\* A variant of load_data that sets num_classes in every stage
load_data_untrained(self, stage, data, dataset, listing) ==
    LET ds == labeled_encoded_video_dataset(data, self.clip_sampler, self.video_sampler,
                                            self.decode_audio, self.decoder, listing)
    IN  [dataset |-> [dataset EXCEPT !.num_classes =
                          PyInt(NumUnique(ds._labeled_videos))],
         ret |-> ds]

\* data.py:66-76: the dataset as load_data leaves it, and what load_data returns
load_data(self, stage, data, dataset, listing) ==
    LET ds == labeled_encoded_video_dataset(data, self.clip_sampler, self.video_sampler,
                                            self.decode_audio, self.decoder, listing)
    IN  [dataset |-> IF training(stage)
                     THEN [dataset EXCEPT !.num_classes =
                               PyInt(NumUnique(ds._labeled_videos))]
                     ELSE dataset,
         ret |-> ds]

\* data.py:78-79
pre_tensor_transform(self, stage, value) ==
    ApplyTransform(current_transform(self, stage), value)

\* data.py:81-82
to_tensor_transform(self, stage, value) ==
    ApplyTransform(current_transform(self, stage), value)

\* A variant of post_tensor_transform that applies the train transforms
post_tensor_transform_of_train(self, stage, value) ==
    ApplyTransform(self.transforms["train"], value)

\* data.py:84-85
post_tensor_transform(self, stage, value) ==
    ApplyTransform(current_transform(self, stage), value)

\* data.py:87-88
per_batch_transform(self, stage, value) ==
    ApplyTransform(current_transform(self, stage), value)

\* data.py:90-91
per_batch_transform_on_device(self, stage, value) ==
    ApplyTransform(current_transform(self, stage), value)

----------------------------------------------------------------------------
(* The pipeline that drives the preprocess, split by split *)

\* The staged transform contract
HookOrder == <<"load_data", "pre_tensor_transform", "to_tensor_transform",
               "post_tensor_transform", "per_batch_transform",
               "per_batch_transform_on_device">>

\* A variant of NextHook that leaves out to_tensor_transform
NextHookSkipping(hooks) == HookOrder[IF Len(hooks) = 2 THEN 4 ELSE Len(hooks) + 1]

\* The hook that follows the hooks already run on a sample
NextHook(hooks) == HookOrder[Len(hooks) + 1]

CallHook(hook, self, stage, value) ==
    CASE hook = "pre_tensor_transform" -> pre_tensor_transform(self, stage, value)
      [] hook = "to_tensor_transform" -> to_tensor_transform(self, stage, value)
      [] hook = "post_tensor_transform" -> post_tensor_transform(self, stage, value)
      [] hook = "per_batch_transform" -> per_batch_transform(self, stage, value)
      [] hook = "per_batch_transform_on_device" ->
             per_batch_transform_on_device(self, stage, value)

\* The auto dataset of a split before load_data has run for it
NewDataset == [num_classes |-> PyNone, ds |-> PyNone]

Loaded(split) == datasets[split].ds /= PyNone

Idle == IF sample = PyNone THEN TRUE ELSE Len(sample.hooks) = Len(HookOrder)

\* The trainer enters a split's stage
SetRunningStage(split) ==
    /\ pc = "returned"
    /\ Idle
    /\ running_stage /= split
    /\ running_stage' = split
    /\ UNCHANGED <<paths_vars, videos, datasets, sample, processed>>
    /\ UNCHANGED <<import_vars, script_vars>>

\* The auto dataset of the running stage calls load_data on its load-data input
LoadData ==
    /\ pc = "returned"
    /\ running_stage /= NoStage
    /\ datamodule.load_data_input[running_stage] /= PyNone
    /\ ~Loaded(running_stage)
    /\ LET r == load_data(datamodule.preprocess, running_stage,
                          datamodule.load_data_input[running_stage],
                          datasets[running_stage], videos)
       IN  datasets' = [datasets EXCEPT ![running_stage] =
                            [r.dataset EXCEPT !.ds = r.ret]]
    /\ UNCHANGED <<paths_vars, videos, running_stage, sample, processed>>
    /\ UNCHANGED <<import_vars, script_vars>>

\* A sample is drawn from the loaded dataset of the running stage
DrawSample ==
    /\ pc = "returned"
    /\ running_stage /= NoStage
    /\ Loaded(running_stage)
    /\ Len(datasets[running_stage].ds._labeled_videos) > 0
    /\ Idle
    /\ processed < MaxSamples
    /\ sample' = [split |-> running_stage, hooks |-> <<"load_data">>, value |-> <<>>]
    /\ processed' = processed + 1
    /\ UNCHANGED <<paths_vars, videos, running_stage, datasets>>
    /\ UNCHANGED <<import_vars, script_vars>>

\* The next hook runs on the sample in the pipeline
RunHook ==
    /\ sample /= PyNone
    /\ Len(sample.hooks) < Len(HookOrder)
    /\ LET hook == NextHook(sample.hooks)
       IN  sample' = [sample EXCEPT
                         !.hooks = Append(@, hook),
                         !.value = CallHook(hook, datamodule.preprocess,
                                            running_stage, @)]
    /\ UNCHANGED <<paths_vars, videos, running_stage, datasets, processed>>
    /\ UNCHANGED <<import_vars, script_vars>>

----------------------------------------------------------------------------
(* flash/utils/imports.py and the imports of data.py *)

\* data.py:17-25: the packages data.py imports unconditionally; every environment
\* has them
RequiredPackages == {"numpy", "torch", "pytorch_lightning", "torchvision"}

\* The packages an environment may or may not have
OptionalPackages == {"pytorch_tabnet", "kornia", "pycocotools", "timm",
                     "matplotlib", "transformers", "pytorchvideo"}

Environments == {RequiredPackages \cup optional : optional \in SUBSET OptionalPackages}

\* pytorch_lightning.utilities.imports._module_available
_module_available(package, env) == package \in env

\* imports.py:3-9: the namespace of flash.utils.imports once it has run
ImportsNamespace(env) ==
    [_TABNET_AVAILABLE |-> _module_available("pytorch_tabnet", env),
     _KORNIA_AVAILABLE |-> _module_available("kornia", env),
     _COCO_AVAILABLE |-> _module_available("pycocotools", env),
     _TIMM_AVAILABLE |-> _module_available("timm", env),
     _TORCHVISION_AVAILABLE |-> _module_available("torchvision", env),
     _MATPLOTLIB_AVAILABLE |-> _module_available("matplotlib", env),
     _TRANSFORMERS_AVAILABLE |-> _module_available("transformers", env)]

\* data.py:31: the names data.py imports from flash.utils.imports
ImportedNames == <<"_KORNIA_AVAILABLE", "_PYTORCHVIDEO_AVAILABLE">>

\* The first of the imported names that the namespace does not define
MissingNames(namespace) ==
    {i \in DOMAIN ImportedNames : ImportedNames[i] \notin DOMAIN namespace}

FirstMissing(namespace) ==
    ImportedNames[CHOOSE i \in MissingNames(namespace) :
                      \A j \in MissingNames(namespace) : i <= j]

NoFlags == <<>>

\* imports.py:1-9: flash.utils.imports is executed
ImportUtils ==
    /\ video_pc = "start"
    /\ flags' = ImportsNamespace(installed)
    /\ video_pc' = "l31"
    /\ UNCHANGED <<installed, video_error>>
    /\ UNCHANGED <<paths_vars, pipeline_vars, script_vars>>

\* data.py:31-41: from flash.utils.imports import ...; a name the module does not
\* define raises ImportError (cannot import name ...), and otherwise the name is
\* bound in the namespace of data.py
ImportVideoData ==
    /\ video_pc = "l31"
    /\ IF MissingNames(flags) = {}
       THEN /\ video_pc' = "imported"
            /\ _PYTORCHVIDEO_AVAILABLE' = flags["_PYTORCHVIDEO_AVAILABLE"]
            /\ UNCHANGED video_error
       ELSE /\ video_pc' = "error"
            /\ video_error' = Exception("ImportError", FirstMissing(flags))
            /\ UNCHANGED _PYTORCHVIDEO_AVAILABLE
    /\ UNCHANGED <<installed, flags>>
    /\ UNCHANGED <<args, pc, clip_sampler_kwargs, clip_sampler, preprocess,
                   datamodule, raised, calls>>
    /\ UNCHANGED <<pipeline_vars, script_vars>>

----------------------------------------------------------------------------
(* flash_examples/finetuning/tabular_classification.py *)

\* A variant of ScriptStatements that tests before it fits
ScriptStatementsTestFirst ==
    <<"download_data", "TabularData.from_csv", "TabularClassifier.from_data",
      "flash.Trainer", "trainer.test", "trainer.fit", "trainer.save_checkpoint">>

\* tabular_classification.py:20-46: the statements, in the order of the file
ScriptStatements ==
    <<"download_data", "TabularData.from_csv", "TabularClassifier.from_data",
      "flash.Trainer", "trainer.fit", "trainer.test", "trainer.save_checkpoint">>

\* The statement at script_pc starts: its call is made
ScriptCall ==
    /\ script_error = PyNone
    /\ script_pc <= Len(ScriptStatements)
    /\ Len(script_called) = Len(script_log)
    /\ script_called' = Append(script_called, ScriptStatements[script_pc])
    /\ UNCHANGED <<script_pc, script_log, script_error>>
    /\ UNCHANGED <<paths_vars, pipeline_vars, import_vars>>

\* The call in progress ends: it returns and the next statement follows, or it
\* raises and the script ends
ScriptReturn ==
    /\ script_error = PyNone
    /\ Len(script_called) = Len(script_log) + 1
    /\ \/ /\ script_log' = Append(script_log, script_called[Len(script_called)])
          /\ script_pc' = script_pc + 1
          /\ UNCHANGED script_error
       \/ /\ script_error' = Exception("Exception", script_called[Len(script_called)])
          /\ UNCHANGED <<script_pc, script_log>>
    /\ UNCHANGED script_called
    /\ UNCHANGED <<paths_vars, pipeline_vars, import_vars>>

----------------------------------------------------------------------------
(* The specifications *)

PathsIdle ==
    /\ _PYTORCHVIDEO_AVAILABLE = FALSE
    /\ args = PyNone
    /\ pc = "idle"
    /\ clip_sampler_kwargs = PyNone
    /\ clip_sampler = PyNone
    /\ preprocess = PyNone
    /\ datamodule = PyNone
    /\ raised = PyNone
    /\ calls = <<>>

PipelineIdle ==
    /\ videos = <<>>
    /\ running_stage = NoStage
    /\ datasets = [split \in Splits |-> NewDataset]
    /\ sample = PyNone
    /\ processed = 0

ImportIdle ==
    /\ installed = {}
    /\ flags = NoFlags
    /\ video_pc = "idle"
    /\ video_error = PyNone

ScriptIdle ==
    /\ script_pc = 0
    /\ script_called = <<>>
    /\ script_log = <<>>
    /\ script_error = PyNone

\* from_paths is called
Init ==
    /\ _PYTORCHVIDEO_AVAILABLE \in BOOLEAN
    /\ args \in FromPathsArgs
    /\ pc = "l181"
    /\ clip_sampler_kwargs = args.clip_sampler_kwargs
    /\ clip_sampler = args.clip_sampler
    /\ preprocess = PyNone
    /\ datamodule = PyNone
    /\ raised = PyNone
    /\ calls = <<>>
    /\ PipelineIdle
    /\ ImportIdle
    /\ ScriptIdle

Next ==
    \/ CheckPytorchvideo
    \/ DefaultClipSamplerKwargs
    \/ CheckClipSampler
    \/ MakeClipSampler
    \/ InstantiatePreprocess
    \/ FromLoadDataInputs

Spec == Init /\ [][Next]_vars

\* from_paths has returned a data module: the states Spec reaches at
\* pc = "returned" for these arguments, with the videos the folders hold
PreprocessArgs ==
    {a \in FromPathsArgs :
        /\ a.clip_sampler = PyStr("random")
        /\ a.clip_sampler_kwargs = PyNone
        /\ a.batch_size = PyInt(DefaultBatchSize)
        /\ a.num_workers = PyNone
        /\ a.preprocess_cls = PyNone}

Returned(a) ==
    LET kw == PyDict({})
        cs == make_clip_sampler(a.clip_sampler, a.clip_duration, kw)
        p == instantiate_preprocess(cs, a.video_sampler, a.decode_audio, a.decoder,
                 a.train_transform, a.val_transform, a.test_transform,
                 a.predict_transform, a.preprocess_cls)
    IN  [clip_sampler_kwargs |-> kw,
         clip_sampler |-> cs,
         preprocess |-> p,
         datamodule |-> from_load_data_inputs(LoadDataInputs(a, p)),
         calls |-> <<Call("make_clip_sampler", <<a.clip_sampler, a.clip_duration, kw>>),
                     Call("instantiate_preprocess", p),
                     Call("from_load_data_inputs", LoadDataInputs(a, p))>>]

InitPreprocess ==
    /\ _PYTORCHVIDEO_AVAILABLE = TRUE
    /\ args \in PreprocessArgs
    /\ pc = "returned"
    /\ clip_sampler_kwargs = Returned(args).clip_sampler_kwargs
    /\ clip_sampler = Returned(args).clip_sampler
    /\ preprocess = Returned(args).preprocess
    /\ datamodule = Returned(args).datamodule
    /\ raised = PyNone
    /\ calls = Returned(args).calls
    /\ videos \in Listings
    /\ running_stage = NoStage
    /\ datasets = [split \in Splits |-> NewDataset]
    /\ sample = PyNone
    /\ processed = 0
    /\ ImportIdle
    /\ ScriptIdle

NextPreprocess ==
    \/ \E split \in Splits : SetRunningStage(split)
    \/ LoadData
    \/ DrawSample
    \/ RunHook

SpecPreprocess == InitPreprocess /\ [][NextPreprocess]_vars

\* An interpreter starts: the video data module is imported, and the example runs
InitImport ==
    /\ PathsIdle
    /\ PipelineIdle
    /\ installed \in Environments
    /\ flags = NoFlags
    /\ video_pc = "start"
    /\ video_error = PyNone
    /\ script_pc = 1
    /\ script_called = <<>>
    /\ script_log = <<>>
    /\ script_error = PyNone

NextImport ==
    \/ ImportUtils
    \/ ImportVideoData
    \/ ScriptCall
    \/ ScriptReturn

SpecImport == InitImport /\ [][NextImport]_vars

----------------------------------------------------------------------------
(* The claims *)

IsPrefix(s, t) == Len(s) <= Len(t) /\ \A i \in 1..Len(s) : s[i] = t[i]

Count(fn) == Cardinality({i \in DOMAIN calls : calls[i].fn = fn})

\* C1: on every sample the hooks run in the order load_data, pre_tensor_transform,
\* to_tensor_transform, post_tensor_transform, per_batch_transform,
\* per_batch_transform_on_device: the hooks that have run on a sample are always
\* the first hooks of that order, each once, and each transform hook that has run
\* has transformed the sample once.
C1_HooksRunInFixedOrder ==
    sample /= PyNone =>
        /\ IsPrefix(sample.hooks,
                    <<"load_data", "pre_tensor_transform", "to_tensor_transform",
                      "post_tensor_transform", "per_batch_transform",
                      "per_batch_transform_on_device">>)
        /\ Len(sample.hooks) >= 1
        /\ Len(sample.value) = Len(sample.hooks) - 1
        /\ Loaded(sample.split)

\* A sample of the val split has been through all six hooks.
C1_Witness ==
    /\ sample /= PyNone
    /\ sample.split = "val"
    /\ Len(sample.hooks) = 6
    /\ sample.hooks[6] = "per_batch_transform_on_device"

\* C2: the preprocess holds one transform set per split, and every transform a
\* hook has applied to a sample is the one given for the sample's split, which is
\* the running stage while the sample is in the pipeline.
C2_HooksApplyTransformOfActiveSplit ==
    /\ pc = "returned" => DOMAIN datamodule.preprocess.transforms = Splits
    /\ sample /= PyNone =>
        /\ Len(sample.hooks) < 6 => running_stage = sample.split
        /\ \A i \in DOMAIN sample.value :
               sample.value[i] = CASE sample.split = "train" -> args.train_transform
                                   [] sample.split = "val" -> args.val_transform
                                   [] sample.split = "test" -> args.test_transform
                                   [] sample.split = "predict" -> args.predict_transform

\* All five transform hooks have run on a val sample, and the val transforms are
\* not the train transforms.
C2_Witness ==
    /\ sample /= PyNone
    /\ sample.split = "val"
    /\ Len(sample.value) = 5
    /\ args.val_transform /= PyNone
    /\ args.train_transform /= args.val_transform

\* C3: in an environment without pytorchvideo, the error that ends an attempt to
\* use VideoClassificationData.from_paths is ModuleNotFoundError with the message
\* of data.py:182.
C3_MissingPytorchvideoRaisesModuleNotFound ==
    ("pytorchvideo" \notin installed /\ video_error /= PyNone) =>
        video_error = Exception("ModuleNotFoundError", PipInstallMessage)

\* C3, the body of from_paths alone: with the flag bound to False, from_paths
\* raises ModuleNotFoundError at its first statement, having called nothing.
C3_FromPathsBody ==
    ~_PYTORCHVIDEO_AVAILABLE =>
        /\ pc \in {"l181", "raised"}
        /\ calls = <<>> /\ preprocess = PyNone /\ datamodule = PyNone
        /\ pc = "raised" =>
               raised = Exception("ModuleNotFoundError", PipInstallMessage)

\* C4: with pytorchvideo available and a falsy clip_sampler, from_paths never gets
\* past the clip_sampler check: it calls none of make_clip_sampler,
\* instantiate_preprocess and from_load_data_inputs, builds no preprocess and no
\* data module, and the exception it raises is MisconfigurationException.
C4_FalsyClipSamplerRaisesFirst ==
    (_PYTORCHVIDEO_AVAILABLE /\ args.clip_sampler \in {PyNone, PyStr("")}) =>
        /\ pc \in {"l181", "l184", "l187", "raised"}
        /\ calls = <<>>
        /\ clip_sampler = args.clip_sampler
        /\ preprocess = PyNone
        /\ datamodule = PyNone
        /\ pc = "raised" =>
               raised = Exception("MisconfigurationException", ClipSamplerMessage)

\* from_paths has raised for an empty clip_sampler string.
C4_Witness ==
    /\ _PYTORCHVIDEO_AVAILABLE
    /\ args.clip_sampler = PyStr("")
    /\ pc = "raised"
    /\ raised.type = "MisconfigurationException"

\* C5: when from_paths has returned, it has built one preprocess and called
\* from_load_data_inputs once, with that preprocess, each folder as the load-data
\* input of its own split, use_iterable_auto_dataset=True and the caller's
\* batch_size and num_workers.
C5_ReturnedDataModule ==
    pc = "returned" =>
        /\ Count("instantiate_preprocess") = 1
        /\ Count("from_load_data_inputs") = 1
        /\ preprocess /= PyNone
        /\ calls[Len(calls)].fn = "from_load_data_inputs"
        /\ LET kw == calls[Len(calls)].arg
           IN  /\ kw.preprocess = preprocess
               /\ kw.train_load_data_input = args.train_folder
               /\ kw.val_load_data_input = args.val_folder
               /\ kw.test_load_data_input = args.test_folder
               /\ kw.predict_load_data_input = args.predict_folder
               /\ kw.use_iterable_auto_dataset = TRUE
               /\ kw.batch_size = args.batch_size
               /\ kw.num_workers = args.num_workers
        /\ datamodule.preprocess = preprocess
        /\ datamodule.load_data_input =
               [train |-> args.train_folder, val |-> args.val_folder,
                test |-> args.test_folder, predict |-> args.predict_folder]
        /\ datamodule.batch_size = args.batch_size
        /\ datamodule.num_workers = args.num_workers
        /\ datamodule.use_iterable_auto_dataset = TRUE

\* from_paths has returned for a train folder, no val folder, and a batch size and
\* worker count that are not the defaults.
C5_Witness ==
    /\ pc = "returned"
    /\ args.train_folder = PyStr("train/")
    /\ args.val_folder = PyNone
    /\ args.batch_size = PyInt(1)
    /\ args.num_workers = PyInt(2)

\* C6: the example's calls start in the numbered order (download, load data,
\* build model, create trainer, fit, test, save checkpoint), and a call starts only
\* when every call before it has returned: the calls that have returned are the
\* calls that have started, less at most the one in progress.
C6_ExampleStepsInOrder ==
    /\ IsPrefix(script_called,
                <<"download_data", "TabularData.from_csv", "TabularClassifier.from_data",
                  "flash.Trainer", "trainer.fit", "trainer.test",
                  "trainer.save_checkpoint">>)
    /\ IsPrefix(script_log, script_called)
    /\ Len(script_called) - Len(script_log) \in {0, 1}

\* The example has run to its end.
C6_Witness ==
    /\ Len(script_log) = 7
    /\ script_log[7] = "trainer.save_checkpoint"
    /\ script_error = PyNone

\* C7: load_data returns the encoded video dataset of the split's data and the
\* preprocess's clip_sampler, video_sampler, decode_audio and decoder; it sets
\* num_classes, to the number of distinct labels of the dataset's videos, on the
\* train dataset only, and leaves it as it was on the val, test and predict
\* datasets.
C7_LoadDataSetsNumClassesWhenTraining ==
    \A split \in Splits :
        IF Loaded(split)
        THEN /\ datasets[split].ds =
                    [t |-> "EncodedVideoDataset",
                     data_path |-> datamodule.load_data_input[split],
                     clip_sampler |-> preprocess.clip_sampler,
                     video_sampler |-> preprocess.video_sampler,
                     decode_audio |-> preprocess.decode_audio,
                     decoder |-> preprocess.decoder,
                     _labeled_videos |-> videos]
             /\ datasets[split].num_classes =
                    IF split = "train"
                    THEN PyInt(Cardinality({videos[i] : i \in DOMAIN videos}))
                    ELSE PyNone
        ELSE datasets[split] = NewDataset

\* load_data has run for train and for val, on two videos of one label.
C7_Witness ==
    /\ Loaded("train")
    /\ Loaded("val")
    /\ Len(videos) = 2
    /\ datasets["train"].num_classes = PyInt(1)
    /\ datasets["val"].num_classes = PyNone

====
